---- MODULE Spec2Model ----
(***************************************************************************)
(* Offline report queue (IndexedDB stores "reports" and "images") and the  *)
(* sync engine of AssistQR (public/js/offline-sync.js), run by several     *)
(* tabs of one browser that share localStorage and IndexedDB.              *)
(*                                                                         *)
(* Every await of syncAllPendingReports / syncReport is one step of a tab, *)
(* so steps of different tabs interleave exactly at the awaits.  A storage *)
(* call (IndexedDB) either succeeds or fails; a failure is either caught   *)
(* inside the storage layer ("dbfail": getDB throws inside the try) or     *)
(* rejects the returned promise ("reject": request.onerror).               *)
(*                                                                         *)
(* offline-sync.js declares pendingReports, synced and failed twice in the *)
(* try block (lines 173-183 and 187-197); the model follows the statements *)
(* in the order written, i.e. the pending list is read twice.              *)
(***************************************************************************)
EXTENDS Integers, Naturals, Sequences, FiniteSets, TLC

\* ---- program constants ----
SYNC_COOLDOWN == 10000
SYNC_LOCK_TIMEOUT == 30000
RETRY_LIMIT == 5

\* ---- bounds of the model ----
MaxReports == 2        \* queue ids handed out by the autoIncrement key
MaxImages == 1         \* files attached to one queued report
MaxFaults == 1         \* storage calls that fail in one run
MaxCloses == 1         \* tabs closed or reloaded in the middle of a cycle
MaxCycles == 2         \* sync cycles started in one run
MaxTriggers == 3       \* online events and SYNC_REPORTS messages in one run
MaxContacts == 2       \* emergency contacts of a vehicle
MaxRequests == 1       \* requests the endpoints handle in one run
MaxWords == 5          \* words of an inbound SMS after the vehicle token
MaxStored == 3         \* records in the image store

\* Time.  The code reads the clock only as Date.now() - <stored timestamp>,
\* so the timestamps are kept relative to the present: now is fixed and the
\* passing of TickMs moves every stored timestamp TickMs into the past.  A
\* timestamp older than every threshold is kept at Oldest (0 is also what
\* getLastSyncTime returns when nothing is stored).
TickMs == SYNC_COOLDOWN
now == SYNC_LOCK_TIMEOUT + TickMs
Oldest == 0

Tabs == {"A", "B"}
OkStatus == 200
ErrorStatuses == {400, 404, 500}
NetworkError == 0

VARIABLES
  online,          \* navigator.onLine
  lock,            \* localStorage[SYNC_LOCK_KEY]: <<>> or <<timestamp>>
  lastSync,        \* localStorage['assistqr_last_sync'], 0 when absent
  lockOwner,       \* history: the tab whose setSyncLock wrote the lock record, or "none"
  reports,         \* object store "reports": id -> [status, retryCount]
  images,          \* object store "images": sequence of [id, reportId] in key order
  nextId,          \* autoIncrement key generator of "reports"
  nextImageId,     \* autoIncrement key generator of "images"
  toAttach,        \* id -> files the submitting page has not stored yet
  accepted,        \* id -> submissions of that entry the endpoint accepted
  closes,          \* tabs closed in the middle of a cycle so far
  cycles,          \* sync cycles started so far
  isSyncing,       \* tab -> the module-level flag
  pc,              \* tab -> position in syncAllPendingReports / syncReport
  pendingReports,  \* tab -> the snapshot being drained
  idx,             \* tab -> position of the for-loop in the snapshot
  formImages,      \* tab -> image ids appended to the FormData
  resp,            \* tab -> <<status>> of the response to the entry the loop is at, or <<>>
  faults,          \* storage failures injected so far
  tookStale,       \* history: the latest cycle start removed a stale lock
  sinceStart,      \* history: ms since the latest cycle start (at most now)
  onlineSyncTimeout, \* tab -> timers set by the trigger listeners and not yet fired
  triggers,        \* online events and SYNC_REPORTS messages delivered so far
  bursts,          \* history: tab -> triggers that arrived with no timer waiting
  invoked,         \* history: tab -> calls of syncAllPendingReports by a timer
  tx,              \* the transaction of a removeReport call, request by request
  removePromise,   \* the promise that removeReport call returned
  request,         \* the request an ingestion endpoint is handling
  spc,             \* position of its handler
  contacts,        \* <<n>>: the vehicle was found and has n emergency contacts
  created,         \* the AccidentReport of this request has been persisted
  results,         \* what Promise.all collects, one entry per contact
  response,        \* the response sent for this request
  accidentReports, \* table AccidentReport: sequence of [lat, lng]
  handled,         \* requests answered so far
  launched,        \* the sends launched for this request: the channel of each
  silent,          \* launched sends whose provider never answers and never times out
  sms,             \* arguments of the sendAccidentAlertSMS call in progress
  message,         \* its message: sequence of pieces [field, len, whole]
  smsPc,           \* position in sendAccidentAlertSMS
  tried,           \* providers called so far, with what each answered
  smsResult,       \* what the call returned: "none", "success", "failed", "threw"
  emailConfig,     \* the email services configured in the environment
  emailPc,         \* position in sendAccidentAlertEmail: 0 idle, 1..6 the blocks, 7 returned
  attempts,        \* email services called so far, with what each answered
  emailResult,     \* what the call returned: "none", "success", "failed", "threw"
  smsText,         \* parts: the words of an inbound SMS
  parsed,          \* what the webhook read from it: <<>> or <<[lat, lng, manualLocation, helperNote]>>
  stored,          \* object store "images" with its contents: sequence of records in key order
  attachedFiles,   \* queue id -> the files storeImage stored for it, in call order
  queued,          \* latitude and longitude of a queue entry (JavaScript values)
  payload,         \* the latitude and longitude fields of the FormData syncReport sends
  persisted,       \* lat and lng of the AccidentReport row POST /report creates
  link,            \* the maps link of the alert: <<>> or <<lat, lng>>
  cpc              \* how far the entry has come: none, queued, sent, persisted, alerted

vars == <<online, lock, lastSync, lockOwner, reports, images, nextId, nextImageId,
          toAttach, accepted, closes, cycles, isSyncing, pc, pendingReports,
          idx, formImages, resp, faults, tookStale, sinceStart,
          onlineSyncTimeout, triggers, bursts, invoked, tx, removePromise,
          request, spc, contacts, created, results, response, accidentReports,
          handled, launched, silent, sms, message, smsPc, tried, smsResult, emailConfig,
          emailPc, attempts, emailResult, smsText, parsed, stored,
          attachedFiles, queued, payload, persisted, link, cpc>>

localStorageVars == <<lock, lastSync, lockOwner>>
dbVars == <<reports, images, nextId, nextImageId>>
runVars == <<closes, cycles, sinceStart>>
tabVars == <<isSyncing, pc, pendingReports, idx, formImages, resp>>
triggerVars == <<onlineSyncTimeout, triggers, bursts, invoked>>
removeVars == <<tx, removePromise>>
fanVars == <<launched, silent>>
serverVars == <<request, spc, contacts, created, results, response,
                accidentReports, handled, fanVars>>
smsVars == <<sms, message, smsPc, tried, smsResult>>
emailVars == <<emailConfig, emailPc, attempts, emailResult>>
parseVars == <<smsText, parsed>>
imageVars == <<stored, attachedFiles>>
coordVars == <<queued, payload, persisted, link, cpc>>
otherVars == <<parseVars, imageVars, coordVars>>
restVars == <<removeVars, serverVars, smsVars, emailVars, otherVars>>

Ids == 1..MaxReports

RECURSIVE SortedSeq(_)
SortedSeq(S) ==
  IF S = {} THEN <<>>
  ELSE LET m == CHOOSE x \in S : \A y \in S : x <= y
       IN <<m>> \o SortedSeq(S \ {m})

RECURSIVE SelectImages(_, _)
SelectImages(s, r) ==
  IF s = <<>> THEN <<>>
  ELSE IF Head(s).reportId = r THEN <<Head(s).id>> \o SelectImages(Tail(s), r)
       ELSE SelectImages(Tail(s), r)

RECURSIVE DropImages(_, _)
DropImages(s, r) ==
  IF s = <<>> THEN <<>>
  ELSE IF Head(s).reportId = r THEN DropImages(Tail(s), r)
       ELSE <<Head(s)>> \o DropImages(Tail(s), r)

\* ---- localStorage helpers (offline-sync.js 10-58) ----
getLastSyncTime == lastSync

\* (variant: a lock record blocks whatever its age)
getSyncLockNoTimeout == lock # <<>>

\* getSyncLock returns TRUE iff a lock younger than the timeout exists;
\* a stale lock is removed as a side effect (LockAfterGet).
getSyncLock == lock # <<>> /\ ~(now - lock[1] > SYNC_LOCK_TIMEOUT)

LockAfterGet == IF lock # <<>> /\ now - lock[1] > SYNC_LOCK_TIMEOUT THEN <<>> ELSE lock

\* the owner of the record getSyncLock leaves behind
OwnerAfterGet ==
  IF lock # <<>> /\ now - lock[1] > SYNC_LOCK_TIMEOUT THEN "none" ELSE lockOwner

setSyncLock == <<now>>

clearSyncLock == <<>>

\* ---- IndexedDB helpers (offline-storage.js) ----
\* getPendingReports: the entries whose status is 'pending', in key order
getPendingReports ==
  LET ids == SortedSeq({i \in DOMAIN reports : reports[i].status = "pending"})
  IN [k \in 1..Len(ids) |-> [id |-> ids[k], retryCount |-> reports[ids[k]].retryCount]]

getReportImages(r) == SelectImages(images, r)

\* (variant: marking an entry failed does not count the attempt)
updateReportStatusKeepsCount(r, status) ==
  [reports EXCEPT ![r] = [status |-> status, retryCount |-> reports[r].retryCount]]

\* (variant: going back to pending clears the count)
updateReportStatusResets(r, status) ==
  [reports EXCEPT ![r] = [status |-> status,
                          retryCount |-> IF status = "failed"
                                         THEN reports[r].retryCount + 1
                                         ELSE 0]]

\* updateReportStatus: one readwrite transaction (get, modify, put)
updateReportStatus(r, status) ==
  [reports EXCEPT ![r] = [status |-> status,
                          retryCount |-> IF status = "failed"
                                         THEN reports[r].retryCount + 1
                                         ELSE reports[r].retryCount]]

removeReportRow(r) == [i \in DOMAIN reports \ {r} |-> reports[i]]

\* ---- values of the ingestion endpoints (routes/accidents.js) ----
\* A text value is its numeric prefix, in whole degrees (<<>>: it has none),
\* and whether more text follows the prefix ("12" and "12abc" differ in
\* rest only).  Empty is the empty string.
Degrees == {-91, 0, 181}
Tokens == [digits : {<<>>} \cup {<<n>> : n \in Degrees}, rest : BOOLEAN]
Empty == [digits |-> <<>>, rest |-> FALSE]
Words == Tokens \ {Empty}

\* parseFloat reads the numeric prefix and ignores what follows; <<>> is NaN
parseFloat(value) == value.digits
isNaN(num) == num = <<>>

\* a column value: null, or a number (NaN: a number that is none)
Null == <<"null", 0>>
Number(num) == IF isNaN(num) THEN <<"NaN", 0>> ELSE <<"num", num[1]>>

Parts == {<<>>} \cup {<<a>> : a \in Words} \cup {<<a, b>> : a, b \in Words}

\* shapes of a webhook body: From and Body (Twilio); from_number and content
\* (Telerivet); event 'incoming_message' or 'message_received' with the text
\* in message or body and without from_number and content; anything else
Shapes == {"Twilio", "Telerivet", "incoming_message", "message_received", "other"}

\* first word of the message
Commands == {"REPORT", "report", "HELP"}

Requests ==
  [path : {"report"}, programmatic : BOOLEAN, source : {"form"},
   body : {TRUE}, command : {"REPORT"}, qrToken : {"", "known", "unknown"},
   latitude : Tokens, longitude : Tokens, parts : {<<>>}]
  \cup
  [path : {"report-offline"}, programmatic : {TRUE}, source : {"form"},
   body : {TRUE}, command : {"REPORT"}, qrToken : {"", "known", "unknown"},
   latitude : Tokens, longitude : Tokens, parts : {<<>>}]
  \cup
  [path : {"sms-webhook"}, programmatic : {TRUE}, source : {"Twilio", "Telerivet"},
   body : {TRUE}, command : Commands, qrToken : {"", "known", "unknown"},
   latitude : {Empty}, longitude : {Empty}, parts : Parts]
  \cup
  [path : {"sms-webhook"}, programmatic : {TRUE}, source : Shapes \ {"Twilio", "Telerivet"},
   body : BOOLEAN, command : Commands, qrToken : {"", "known", "unknown"},
   latitude : {Empty}, longitude : {Empty}, parts : Parts]

NoRequest ==
  [path |-> "none", programmatic |-> FALSE, source |-> "none", body |-> FALSE,
   command |-> "none", qrToken |-> "", latitude |-> Empty, longitude |-> Empty,
   parts |-> <<>>]

NoResponse ==
  [status |-> 0, success |-> FALSE, count |-> <<>>, format |-> "none", error |-> ""]

\* ---- values of the SMS service (services/sms.js) ----
\* input caps of the text fields
PlateCap == 50
ModelCap == 100
ColorCap == 50
LocationCap == 500
NoteCap == 1000

\* lengths used by sendAccidentAlertSMS
SmsLimit == 160
HeaderLen == 15
TimeLen == 18
MapsPrefixLen == 19
ShortLoc == 45
ShortNote == 30
FooterLen == 13
Ellipsis == 3
MinRoom == 5

\* length of the decimal text of a coordinate; 0: no (or a falsy) coordinate
CoordLens == {0, 1, 18}

\* a phone number after replace(/\D/g, ''): its length and whether it starts
\* with 91
Phones == [len : {10, 12}, starts91 : BOOLEAN]

\* lengths of the text fields, within their caps
SmsInputs ==
  [plate : {1, PlateCap}, model : {0, 5, ModelCap}, color : {0, ColorCap},
   lat : CoordLens, lng : {0, 18},
   loc : {0, ShortLoc, ShortLoc + 1, LocationCap},
   note : {0, ShortNote, ShortNote + 1, NoteCap},
   phone : Phones, fast2sms : BOOLEAN, twilio : BOOLEAN]

NoSms ==
  [plate |-> 0, model |-> 0, color |-> 0, lat |-> 0, lng |-> 0, loc |-> 0,
   note |-> 0, phone |-> [len |-> 0, starts91 |-> FALSE], fast2sms |-> FALSE,
   twilio |-> FALSE]

\* ---- values of a queue entry's coordinates ----
\* whole degrees within the ranges the validators accept
CoordValues == {-90, 0, 12}

\* a JavaScript value of reportData: absent, a number, or the number's text
Undefined == [kind |-> "undefined", n |-> 0]
JsValues == {Undefined} \cup [kind : {"number", "string"}, n : CoordValues]

\* ---- values of the image store (offline-storage.js) ----
QueueIds == {1, 2}

\* a File: its bytes, its name ("" when it has none) and its MIME type ("" when
\* the browser knows none)
Files == [bytes : {<<>>, <<7>>, <<7, 9>>}, name : {"", "a.png"}, type : {"", "image/png"}]

\* no removeReport transaction has been opened
NoTx == [phase |-> "none", id |-> 0, found |-> <<>>]

\* state of a page load; queue is the content of the "reports" store
InitWith(queue) ==
  /\ online \in BOOLEAN
  /\ lock = <<>>
  /\ lockOwner = "none"
  /\ lastSync = Oldest
  /\ reports = queue
  /\ nextId = Len(queue) + 1
  /\ images = <<>>
  /\ nextImageId = 1
  /\ toAttach = [i \in Ids |-> 0]
  /\ accepted = [i \in Ids |-> 0]
  /\ closes = 0
  /\ cycles = 0
  /\ isSyncing = [t \in Tabs |-> FALSE]
  /\ pc = [t \in Tabs |-> "idle"]
  /\ pendingReports = [t \in Tabs |-> <<>>]
  /\ idx = [t \in Tabs |-> 0]
  /\ formImages = [t \in Tabs |-> <<>>]
  /\ resp = [t \in Tabs |-> <<>>]
  /\ faults = 0
  /\ tookStale = FALSE
  /\ sinceStart = now
  /\ onlineSyncTimeout = [t \in Tabs |-> 0]
  /\ triggers = 0
  /\ bursts = [t \in Tabs |-> 0]
  /\ invoked = [t \in Tabs |-> 0]
  /\ tx = NoTx
  /\ removePromise = "none"
  /\ request = NoRequest
  /\ spc = "idle"
  /\ contacts = <<>>
  /\ created = FALSE
  /\ results = <<>>
  /\ response = NoResponse
  /\ accidentReports = <<>>
  /\ handled = 0
  /\ launched = <<>>
  /\ silent = 0
  /\ sms = NoSms
  /\ message = <<>>
  /\ smsPc = "idle"
  /\ tried = <<>>
  /\ smsResult = "none"
  /\ emailConfig = {}
  /\ emailPc = 0
  /\ attempts = <<>>
  /\ emailResult = "none"
  /\ smsText = <<>>
  /\ parsed = <<>>
  /\ stored = <<>>
  /\ attachedFiles = [q \in QueueIds |-> <<>>]
  /\ queued = [latitude |-> Undefined, longitude |-> Undefined]
  /\ payload = [latitude |-> Empty, longitude |-> Empty]
  /\ persisted = [lat |-> Null, lng |-> Null]
  /\ link = <<>>
  /\ cpc = "none"

\* first use: nothing queued yet
Init == InitWith(<<>>)

\* a later page load: one entry is queued, left pending by earlier cycles
\* (never failed, one failure short of the ceiling, at the ceiling)
InitRetryCounts == {0, RETRY_LIMIT - 1, RETRY_LIMIT}

InitRetry ==
  \E rc \in InitRetryCounts :
    InitWith(<<[status |-> "pending", retryCount |-> rc]>>)

\* ---- storage failures ----
ReadOutcomes == {"ok", "dbfail", "reject"}
WriteOutcomes == {"ok", "reject"}
\* removeReport resolves when the delete request of the report succeeds, before
\* its transaction completes: "abort" is a transaction that fails after that
RemoveOutcomes == {"ok", "reject", "abort"}

Inject(o) ==
  /\ o # "ok" => faults < MaxFaults
  /\ faults' = IF o = "ok" THEN faults ELSE faults + 1

\* the report object the for-loop of tab t is at
CurrentReport(t) == pendingReports[t][idx[t]]

\* (variant: the finally block resets the flag and keeps the lock record)
FinallyKeepsLock(t) ==
  /\ isSyncing' = [isSyncing EXCEPT ![t] = FALSE]
  /\ lock' = lock
  /\ lockOwner' = lockOwner
  /\ pc' = [pc EXCEPT ![t] = "idle"]
  /\ pendingReports' = [pendingReports EXCEPT ![t] = <<>>]
  /\ idx' = [idx EXCEPT ![t] = 0]
  /\ formImages' = [formImages EXCEPT ![t] = <<>>]
  /\ resp' = [resp EXCEPT ![t] = <<>>]

\* finally block of syncAllPendingReports (offline-sync.js 238-242); the
\* locals of the invocation are dropped with it
Finally(t) ==
  /\ isSyncing' = [isSyncing EXCEPT ![t] = FALSE]
  /\ lock' = clearSyncLock
  /\ lockOwner' = "none"
  /\ pc' = [pc EXCEPT ![t] = "idle"]
  /\ pendingReports' = [pendingReports EXCEPT ![t] = <<>>]
  /\ idx' = [idx EXCEPT ![t] = 0]
  /\ formImages' = [formImages EXCEPT ![t] = <<>>]
  /\ resp' = [resp EXCEPT ![t] = <<>>]

\* the next snapshot entry: after the 1 s delay of line 229 (resp keeps the
\* response to the entry just handled), or on 'continue' at line 206
NextIteration(t) ==
  /\ pc' = [pc EXCEPT ![t] = "loop"]
  /\ idx' = [idx EXCEPT ![t] = idx[t] + 1]
  /\ formImages' = [formImages EXCEPT ![t] = <<>>]
  /\ UNCHANGED <<isSyncing, lock, lockOwner, pendingReports>>

Goto(t, label) ==
  /\ pc' = [pc EXCEPT ![t] = label]
  /\ UNCHANGED <<isSyncing, lock, lockOwner, pendingReports, idx>>

\* (variant: the prologue without the cooldown test of lines 155-160)
syncWithoutCooldown(t) ==
  LET stale == lock # <<>> /\ now - lock[1] > SYNC_LOCK_TIMEOUT
  IN
  /\ UNCHANGED <<online, dbVars, toAttach, accepted, closes, faults, restVars>>
  /\ IF isSyncing[t]
     THEN UNCHANGED <<localStorageVars, tabVars, cycles, tookStale, sinceStart>>
     ELSE /\ pc[t] = "idle"
          /\ IF getSyncLock
             THEN UNCHANGED <<localStorageVars, tabVars, cycles, tookStale, sinceStart>>
             ELSE IF ~online
             THEN /\ lock' = LockAfterGet
                  /\ lockOwner' = OwnerAfterGet
                  /\ UNCHANGED <<lastSync, tabVars, cycles, tookStale, sinceStart>>
             ELSE /\ cycles < MaxCycles
                  /\ cycles' = cycles + 1
                  /\ isSyncing' = [isSyncing EXCEPT ![t] = TRUE]
                  /\ lock' = setSyncLock
                  /\ lockOwner' = t
                  /\ lastSync' = now
                  /\ pc' = [pc EXCEPT ![t] = "get1"]
                  /\ tookStale' = stale
                  /\ sinceStart' = 0
                  /\ UNCHANGED <<pendingReports, idx, formImages, resp>>

\* (variant: the prologue without the online test of lines 162-165)
syncIgnoresOffline(t) ==
  LET stale == lock # <<>> /\ now - lock[1] > SYNC_LOCK_TIMEOUT
  IN
  /\ UNCHANGED <<online, dbVars, toAttach, accepted, closes, faults, restVars>>
  /\ IF isSyncing[t]
     THEN UNCHANGED <<localStorageVars, tabVars, cycles, tookStale, sinceStart>>
     ELSE /\ pc[t] = "idle"
          /\ IF getSyncLock
             THEN UNCHANGED <<localStorageVars, tabVars, cycles, tookStale, sinceStart>>
             ELSE IF now - getLastSyncTime < SYNC_COOLDOWN
             THEN /\ lock' = LockAfterGet
                  /\ lockOwner' = OwnerAfterGet
                  /\ UNCHANGED <<lastSync, tabVars, cycles, tookStale, sinceStart>>
             ELSE /\ cycles < MaxCycles
                  /\ cycles' = cycles + 1
                  /\ isSyncing' = [isSyncing EXCEPT ![t] = TRUE]
                  /\ lock' = setSyncLock
                  /\ lockOwner' = t
                  /\ lastSync' = now
                  /\ pc' = [pc EXCEPT ![t] = "get1"]
                  /\ tookStale' = stale
                  /\ sinceStart' = 0
                  /\ UNCHANGED <<pendingReports, idx, formImages, resp>>

\* ---- syncAllPendingReports, lines 142-170: the synchronous prologue ----
syncAllPendingReports(t) ==
  LET stale == lock # <<>> /\ now - lock[1] > SYNC_LOCK_TIMEOUT
  IN
  /\ UNCHANGED <<online, dbVars, toAttach, accepted, closes, faults, restVars>>
  /\ IF isSyncing[t]
     THEN UNCHANGED <<localStorageVars, tabVars, cycles, tookStale, sinceStart>>
     ELSE /\ pc[t] = "idle"
          /\ IF getSyncLock
             THEN UNCHANGED <<localStorageVars, tabVars, cycles, tookStale, sinceStart>>
             ELSE IF now - getLastSyncTime < SYNC_COOLDOWN \/ ~online
             THEN /\ lock' = LockAfterGet
                  /\ lockOwner' = OwnerAfterGet
                  /\ UNCHANGED <<lastSync, tabVars, cycles, tookStale, sinceStart>>
             ELSE /\ cycles < MaxCycles
                  /\ cycles' = cycles + 1
                  /\ isSyncing' = [isSyncing EXCEPT ![t] = TRUE]
                  /\ lock' = setSyncLock
                  /\ lockOwner' = t
                  /\ lastSync' = now
                  /\ pc' = [pc EXCEPT ![t] = "get1"]
                  /\ tookStale' = stale
                  /\ sinceStart' = 0
                  /\ UNCHANGED <<pendingReports, idx, formImages, resp>>

\* line 173: first read of the pending list; empty list returns at 175-178
GetPendingFirst(t, o) ==
  /\ pc[t] = "get1"
  /\ Inject(o)
  /\ LET list == IF o = "ok" THEN getPendingReports ELSE <<>>
     IN IF o = "reject" \/ list = <<>>
        THEN Finally(t)
        ELSE Goto(t, "get2") /\ UNCHANGED <<formImages, resp>>
  /\ UNCHANGED <<online, lastSync, dbVars, toAttach, accepted, runVars, tookStale, triggerVars, restVars>>

\* line 187: second read; this list is the one the for-loop drains
GetPendingSecond(t, o) ==
  /\ pc[t] = "get2"
  /\ Inject(o)
  /\ LET list == IF o = "ok" THEN getPendingReports ELSE <<>>
     IN IF o = "reject" \/ list = <<>>
        THEN Finally(t)
        ELSE /\ pendingReports' = [pendingReports EXCEPT ![t] = list]
             /\ idx' = [idx EXCEPT ![t] = 1]
             /\ pc' = [pc EXCEPT ![t] = "loop"]
             /\ UNCHANGED <<isSyncing, lock, lockOwner, formImages, resp>>
  /\ UNCHANGED <<online, lastSync, dbVars, toAttach, accepted, runVars, tookStale, triggerVars, restVars>>

\* lines 232-242: the loop is exhausted, the cycle completes
LoopDone(t) ==
  /\ pc[t] = "loop"
  /\ idx[t] > Len(pendingReports[t])
  /\ Finally(t)
  /\ UNCHANGED <<online, lastSync, dbVars, toAttach, accepted, runVars, faults, tookStale, triggerVars, restVars>>

\* lines 199-207: re-read the pending list and skip an entry that left it
LoopCheck(t, o) ==
  /\ pc[t] = "loop"
  /\ idx[t] <= Len(pendingReports[t])
  /\ Inject(o)
  /\ LET freshPending == IF o = "ok" THEN getPendingReports ELSE <<>>
         stillPending == \E k \in 1..Len(freshPending) :
                            freshPending[k].id = CurrentReport(t).id
     IN IF o = "reject" THEN Finally(t)
        ELSE /\ resp' = [resp EXCEPT ![t] = <<>>]
             /\ IF stillPending THEN Goto(t, "mark") /\ UNCHANGED formImages
                ELSE NextIteration(t)
  /\ UNCHANGED <<online, lastSync, dbVars, toAttach, accepted, runVars, tookStale, triggerVars, restVars>>

\* line 210: updateReportStatus(report.id, 'syncing')
MarkSyncing(t, o) ==
  /\ pc[t] = "mark"
  /\ Inject(o)
  /\ LET r == CurrentReport(t).id
     IN IF o = "ok" /\ r \in DOMAIN reports
        THEN /\ reports' = updateReportStatus(r, "syncing")
             /\ Goto(t, "images")
             /\ UNCHANGED <<formImages, resp>>
        ELSE Finally(t) /\ UNCHANGED reports
  /\ UNCHANGED <<online, lastSync, images, nextId, nextImageId, toAttach,
                 accepted, runVars, tookStale, triggerVars, restVars>>

\* syncReport lines 66-110: read the images and build the FormData
ReadImages(t, o) ==
  /\ pc[t] = "images"
  /\ Inject(o)
  /\ IF o = "reject"
     THEN Goto(t, "catch") /\ UNCHANGED <<formImages, resp>>
     ELSE /\ formImages' = [formImages EXCEPT ![t] =
                 IF o = "ok" THEN getReportImages(CurrentReport(t).id) ELSE <<>>]
          /\ Goto(t, "fetch")
          /\ UNCHANGED resp
  /\ UNCHANGED <<online, lastSync, dbVars, toAttach, accepted, runVars, tookStale, triggerVars, restVars>>

\* syncReport lines 114-123: POST /accidents/report and its response
Fetch(t, status) ==
  /\ pc[t] = "fetch"
  /\ ~online => status = NetworkError
  /\ resp' = [resp EXCEPT ![t] = <<status>>]
  /\ formImages' = [formImages EXCEPT ![t] = <<>>]
  /\ accepted' = IF status = OkStatus
                 THEN [accepted EXCEPT ![CurrentReport(t).id] = @ + 1]
                 ELSE accepted
  /\ Goto(t, IF status = OkStatus THEN "respOk"
             ELSE IF status = NetworkError THEN "catch" ELSE "respFail")
  /\ UNCHANGED <<online, lastSync, dbVars, toAttach, runVars, faults, tookStale, triggerVars, restVars>>

\* syncReport lines 123-127: response.ok, removeReport(report.id)
RemoveAfterSuccess(t, o) ==
  /\ pc[t] = "respOk"
  /\ Inject(o)
  /\ LET r == CurrentReport(t).id
     IN IF o = "ok"
        THEN /\ reports' = removeReportRow(r)
             /\ images' = DropImages(images, r)
             /\ NextIteration(t)
        ELSE IF o = "abort"
        THEN /\ NextIteration(t)
             /\ UNCHANGED <<reports, images>>
        ELSE /\ Goto(t, "catch")
             /\ UNCHANGED <<reports, images, formImages>>
  /\ UNCHANGED <<online, lastSync, nextId, nextImageId, toAttach, accepted,
                 runVars, resp, tookStale, triggerVars, restVars>>

\* syncReport lines 128-133: not ok, updateReportStatus(report.id, 'failed')
MarkFailed(t, o) ==
  /\ pc[t] = "respFail"
  /\ Inject(o)
  /\ LET r == CurrentReport(t).id
     IN IF o = "ok" /\ r \in DOMAIN reports
        THEN reports' = updateReportStatus(r, "failed") /\ Goto(t, "requeue")
        ELSE UNCHANGED reports /\ Goto(t, "catch")
  /\ UNCHANGED <<online, lastSync, images, nextId, nextImageId, toAttach,
                 accepted, runVars, formImages, resp, tookStale, triggerVars, restVars>>

\* syncReport lines 134-138: catch, updateReportStatus(report.id, 'failed');
\* a rejection here leaves syncReport and the for-loop as an exception
CatchMarkFailed(t, o) ==
  /\ pc[t] = "catch"
  /\ Inject(o)
  /\ LET r == CurrentReport(t).id
     IN IF o = "ok" /\ r \in DOMAIN reports
        THEN /\ reports' = updateReportStatus(r, "failed")
             /\ Goto(t, "requeue")
             /\ UNCHANGED <<formImages, resp>>
        ELSE UNCHANGED reports /\ Finally(t)
  /\ UNCHANGED <<online, lastSync, images, nextId, nextImageId, toAttach,
                 accepted, runVars, tookStale, triggerVars, restVars>>

\* lines 218-229: back to pending unless the snapshot's retryCount is >= 5
RequeueStatus(report) ==
  IF report.retryCount >= RETRY_LIMIT THEN "permanently_failed" ELSE "pending"

\* (variant: a 400 or 404 response parks the entry at once)
RequeueTerminal(t, o) ==
  /\ pc[t] = "requeue"
  /\ Inject(o)
  /\ LET r == CurrentReport(t).id
     IN IF o = "ok" /\ r \in DOMAIN reports
        THEN /\ reports' = updateReportStatus(r,
                    IF resp[t] \in {<<400>>, <<404>>} THEN "permanently_failed"
                    ELSE RequeueStatus(CurrentReport(t)))
             /\ NextIteration(t)
             /\ UNCHANGED resp
        ELSE UNCHANGED reports /\ Finally(t)
  /\ UNCHANGED <<online, lastSync, images, nextId, nextImageId, toAttach,
                 accepted, runVars, tookStale, triggerVars, restVars>>

\* (variant: a failed entry ends the for-loop)
RequeueBreaks(t, o) ==
  /\ pc[t] = "requeue"
  /\ Inject(o)
  /\ LET r == CurrentReport(t).id
     IN IF o = "ok" /\ r \in DOMAIN reports
        THEN reports' = updateReportStatus(r, RequeueStatus(CurrentReport(t)))
        ELSE UNCHANGED reports
  /\ Finally(t)
  /\ UNCHANGED <<online, lastSync, images, nextId, nextImageId, toAttach,
                 accepted, runVars, tookStale, triggerVars, restVars>>

Requeue(t, o) ==
  /\ pc[t] = "requeue"
  /\ Inject(o)
  /\ LET r == CurrentReport(t).id
     IN IF o = "ok" /\ r \in DOMAIN reports
        THEN /\ reports' = updateReportStatus(r, RequeueStatus(CurrentReport(t)))
             /\ NextIteration(t)
             /\ UNCHANGED resp
        ELSE UNCHANGED reports /\ Finally(t)
  /\ UNCHANGED <<online, lastSync, images, nextId, nextImageId, toAttach,
                 accepted, runVars, tookStale, triggerVars, restVars>>

\* ---- the queue's producers (offline-storage.js) ----
\* queueReport: store.add of a report with status 'pending', retryCount 0;
\* n is the number of files the page goes on to store for the new id
queueReport(n) ==
  /\ nextId <= MaxReports
  /\ reports' = [i \in DOMAIN reports \cup {nextId} |->
                   IF i = nextId THEN [status |-> "pending", retryCount |-> 0]
                   ELSE reports[i]]
  /\ nextId' = nextId + 1
  /\ toAttach' = [toAttach EXCEPT ![nextId] = n]
  /\ UNCHANGED <<online, localStorageVars, images, nextImageId, accepted, runVars,
                 tabVars, faults, tookStale, triggerVars, restVars>>

\* storeImage(file, reportId): one store.add on "images"
storeImage(r, o) ==
  /\ toAttach[r] > 0
  /\ Inject(o)
  /\ toAttach' = [toAttach EXCEPT ![r] = @ - 1]
  /\ IF o = "ok"
     THEN /\ images' = Append(images, [id |-> nextImageId, reportId |-> r])
          /\ nextImageId' = nextImageId + 1
     ELSE UNCHANGED <<images, nextImageId>>
  /\ UNCHANGED <<online, localStorageVars, reports, nextId, accepted, runVars,
                 tabVars, tookStale, triggerVars, restVars>>

\* ---- environment ----
\* the tab is closed or reloaded: the script's memory is gone, localStorage
\* and IndexedDB stay as they are
CloseTab(t) ==
  /\ pc[t] # "idle"
  /\ closes < MaxCloses
  /\ closes' = closes + 1
  /\ UNCHANGED <<cycles, sinceStart>>
  /\ isSyncing' = [isSyncing EXCEPT ![t] = FALSE]
  /\ pc' = [pc EXCEPT ![t] = "idle"]
  /\ pendingReports' = [pendingReports EXCEPT ![t] = <<>>]
  /\ idx' = [idx EXCEPT ![t] = 0]
  /\ formImages' = [formImages EXCEPT ![t] = <<>>]
  /\ resp' = [resp EXCEPT ![t] = <<>>]
  /\ UNCHANGED <<online, localStorageVars, dbVars, toAttach, accepted,
                 faults, tookStale, triggerVars, restVars>>

Age(ts) == IF ts - TickMs > Oldest THEN ts - TickMs ELSE Oldest

Tick ==
  /\ lastSync # Oldest \/ (lock # <<>> /\ lock[1] # Oldest)
  /\ lastSync' = Age(lastSync)
  /\ lock' = IF lock = <<>> THEN <<>> ELSE <<Age(lock[1])>>
  /\ lockOwner' = lockOwner
  /\ sinceStart' = IF sinceStart + TickMs < now THEN sinceStart + TickMs ELSE now
  /\ UNCHANGED <<online, dbVars, toAttach, accepted, closes, cycles, tabVars,
                 faults, tookStale, triggerVars, restVars>>

Connectivity ==
  /\ online' = ~online
  /\ UNCHANGED <<localStorageVars, dbVars, toAttach, accepted, runVars, tabVars,
                 faults, tookStale, triggerVars, restVars>>

\* the steps of a cycle after its prologue, in the tabs T
Cycle(T) ==
  \/ \E t \in T, o \in ReadOutcomes : GetPendingFirst(t, o)
  \/ \E t \in T, o \in ReadOutcomes : GetPendingSecond(t, o)
  \/ \E t \in T : LoopDone(t)
  \/ \E t \in T, o \in ReadOutcomes : LoopCheck(t, o)
  \/ \E t \in T, o \in WriteOutcomes : MarkSyncing(t, o)
  \/ \E t \in T, o \in ReadOutcomes : ReadImages(t, o)
  \/ \E t \in T, s \in {OkStatus, NetworkError} \cup ErrorStatuses : Fetch(t, s)
  \/ \E t \in T, o \in RemoveOutcomes : RemoveAfterSuccess(t, o)
  \/ \E t \in T, o \in WriteOutcomes : MarkFailed(t, o)
  \/ \E t \in T, o \in WriteOutcomes : CatchMarkFailed(t, o)
  \/ \E t \in T, o \in WriteOutcomes : Requeue(t, o)

\* the sync engine in the tabs T, invoked at any moment
Drain(T) ==
  \/ \E t \in T : syncAllPendingReports(t) /\ UNCHANGED triggerVars
  \/ Cycle(T)
  \/ \E t \in T : CloseTab(t)
  \/ Tick
  \/ Connectivity

Produce ==
  \/ \E n \in 0..MaxImages : queueReport(n)
  \/ \E r \in Ids, o \in WriteOutcomes : storeImage(r, o)

\* one tab fills the queue and drains it
Next == Drain({"A"}) \/ Produce

Spec == Init /\ [][Next]_vars

\* two tabs drain an entry that earlier cycles left pending
NextTabs == Drain(Tabs)

SpecTabs == InitRetry /\ [][NextTabs]_vars

\* ---- the queue while triggers keep occurring ----
\* The page is online and the engine is invoked again and again; a cycle that
\* has started goes on, every request gets an answer, time passes.  A closed
\* tab is the same page loaded again.
\* the count of cycles starts again, so that a further cycle can start
Recount ==
  /\ \A t \in Tabs : pc[t] = "idle"
  /\ cycles = MaxCycles
  /\ cycles' = 0
  /\ UNCHANGED <<online, localStorageVars, dbVars, toAttach, accepted, closes,
                 sinceStart, tabVars, faults, tookStale, triggerVars, restVars>>

Invoked == syncAllPendingReports("A") /\ UNCHANGED triggerVars

NextQueue ==
  \/ Invoked
  \/ Cycle({"A"})
  \/ CloseTab("A")
  \/ Tick
  \/ Recount

InitOnline == InitRetry /\ online

SpecQueueFair ==
  /\ InitOnline
  /\ [][NextQueue]_vars
  /\ WF_vars(Invoked)
  /\ WF_vars(Cycle({"A"}))
  /\ WF_vars(Tick)
  /\ WF_vars(Recount)

\* ---- the debounced triggers (offline-sync.js 297-334) ----
\* Both listeners share onlineSyncTimeout: a waiting timer is cleared and a
\* new one is set, so n waiting timers become one.  The delays (2000 ms and
\* 1000 ms) are not measured: a waiting timer fires at any later moment.
\* (variant: the listener sets a timer without clearing the one waiting)
setTimeoutWithoutClear(n) == n + 1

debounce(n) == 1

\* a trigger reaches the listener of tab t
Schedule(t) ==
  /\ triggers < MaxTriggers
  /\ triggers' = triggers + 1
  /\ bursts' = [bursts EXCEPT ![t] = IF onlineSyncTimeout[t] = 0 THEN @ + 1 ELSE @]
  /\ onlineSyncTimeout' = [onlineSyncTimeout EXCEPT ![t] = debounce(@)]
  /\ UNCHANGED invoked

\* window 'online' event: callback(true)
OnlineEvent(t) ==
  /\ ~online
  /\ online' = TRUE
  /\ Schedule(t)
  /\ UNCHANGED <<localStorageVars, dbVars, toAttach, accepted, runVars, tabVars,
                 faults, tookStale, restVars>>

\* window 'offline' event: callback(false) schedules nothing
OfflineEvent ==
  /\ online
  /\ online' = FALSE
  /\ UNCHANGED <<localStorageVars, dbVars, toAttach, accepted, runVars, tabVars,
                 faults, tookStale, triggerVars, restVars>>

\* service worker message { type: 'SYNC_REPORTS' }
SyncReportsMessage(t) ==
  /\ Schedule(t)
  /\ UNCHANGED <<online, localStorageVars, dbVars, toAttach, accepted, runVars,
                 tabVars, faults, tookStale, restVars>>

\* a waiting timer fires: await syncAllPendingReports()
TimerFires(t) ==
  /\ onlineSyncTimeout[t] > 0
  /\ onlineSyncTimeout' = [onlineSyncTimeout EXCEPT ![t] = @ - 1]
  /\ invoked' = [invoked EXCEPT ![t] = @ + 1]
  /\ UNCHANGED <<triggers, bursts>>
  /\ syncAllPendingReports(t)

\* the sync engine in the tabs T, invoked by the timers of the listeners
Triggered(T) ==
  \/ \E t \in T : OnlineEvent(t)
  \/ OfflineEvent
  \/ \E t \in T : SyncReportsMessage(t)
  \/ \E t \in T : TimerFires(t)
  \/ Cycle(T)
  \/ Tick

\* one page: its listeners, its timers and its cycles
NextTriggers == Triggered({"A"})

SpecTriggers == InitRetry /\ [][NextTriggers]_vars

\* a waiting timer does fire, a started cycle goes on, time passes; whether
\* further events arrive is left open
SpecTriggersFair ==
  /\ SpecTriggers
  /\ WF_vars(TimerFires("A"))
  /\ WF_vars(Cycle({"A"}))
  /\ WF_vars(Tick)

\* ---- removeReport, request by request (offline-storage.js) ----
\* One readwrite transaction over "reports" and "images".  Its requests run in
\* the order they were placed: getAll of the images, delete of the report,
\* then the image deletes placed by the getAll handler.  What the transaction
\* has done is in reports and images only when it completes; a failed request
\* aborts it.  Other transactions on these stores wait until it has finished.
TxIdle == tx.phase \in {"none", "done", "aborted"}

\* lines 824-841: the transaction is opened, getAll and delete are placed
removeReport(r) ==
  /\ TxIdle
  /\ tx' = [phase |-> "getAll", id |-> r, found |-> <<>>]
  /\ removePromise' = "pending"
  /\ UNCHANGED <<online, localStorageVars, dbVars, toAttach, accepted, runVars,
                 tabVars, faults, tookStale, triggerVars, serverVars, smsVars, emailVars, otherVars>>

\* lines 831-836: getImagesRequest.onsuccess places a delete for every image
GetImagesDone(o) ==
  /\ tx.phase = "getAll"
  /\ Inject(o)
  /\ IF o = "ok"
     THEN /\ tx' = [tx EXCEPT !.phase = "delete", !.found = getReportImages(tx.id)]
          /\ UNCHANGED removePromise
     ELSE /\ tx' = [tx EXCEPT !.phase = "aborted"]
          /\ removePromise' = "rejected"
  /\ UNCHANGED <<online, localStorageVars, dbVars, toAttach, accepted, runVars,
                 tabVars, tookStale, triggerVars, serverVars, smsVars, emailVars, otherVars>>

\* lines 839-849: request.onsuccess resolves, request.onerror rejects
DeleteReportDone(o) ==
  /\ tx.phase = "delete"
  /\ Inject(o)
  /\ IF o = "ok"
     THEN /\ tx' = [tx EXCEPT !.phase = "images"]
          /\ removePromise' = "resolved"
     ELSE /\ tx' = [tx EXCEPT !.phase = "aborted"]
          /\ removePromise' = "rejected"
  /\ UNCHANGED <<online, localStorageVars, dbVars, toAttach, accepted, runVars,
                 tabVars, tookStale, triggerVars, serverVars, smsVars, emailVars, otherVars>>

\* line 834: one imageStore.delete(img.id); nothing listens to its outcome
DeleteImageDone(o) ==
  /\ tx.phase = "images"
  /\ tx.found # <<>>
  /\ Inject(o)
  /\ tx' = IF o = "ok" THEN [tx EXCEPT !.found = Tail(@)]
           ELSE [tx EXCEPT !.phase = "aborted"]
  /\ UNCHANGED <<online, localStorageVars, dbVars, toAttach, accepted, runVars,
                 tabVars, tookStale, triggerVars, removePromise, serverVars, smsVars,
                 emailVars, otherVars>>

\* the transaction completes (all requests done) or fails to
Commit(o) ==
  /\ tx.phase = "images"
  /\ tx.found = <<>>
  /\ Inject(o)
  /\ IF o = "ok"
     THEN /\ tx' = [tx EXCEPT !.phase = "done"]
          /\ reports' = IF tx.id \in DOMAIN reports THEN removeReportRow(tx.id)
                        ELSE reports
          /\ images' = DropImages(images, tx.id)
     ELSE /\ tx' = [tx EXCEPT !.phase = "aborted"]
          /\ UNCHANGED <<reports, images>>
  /\ UNCHANGED <<online, localStorageVars, nextId, nextImageId, toAttach, accepted,
                 runVars, tabVars, tookStale, triggerVars, removePromise, serverVars, smsVars,
                 emailVars, otherVars>>

\* the page fills the queue and removes entries from it
NextRemove ==
  \/ TxIdle /\ Produce
  \/ \E r \in Ids : removeReport(r)
  \/ \E o \in WriteOutcomes : GetImagesDone(o)
  \/ \E o \in WriteOutcomes : DeleteReportDone(o)
  \/ \E o \in WriteOutcomes : DeleteImageDone(o)
  \/ \E o \in WriteOutcomes : Commit(o)

SpecRemove == Init /\ [][NextRemove]_vars

\* ---- the ingestion endpoints (routes/accidents.js) ----
clientVars == <<online, localStorageVars, dbVars, toAttach, accepted, runVars,
                tabVars, faults, tookStale, triggerVars, removeVars>>

\* validators of latitude and longitude; optional({ checkFalsy: true }) skips
\* an empty value
validLatitude(value) ==
  \/ value = Empty
  \/ LET num == parseFloat(value)
     IN ~(isNaN(num) \/ num[1] < -90 \/ num[1] > 90)

validLongitude(value) ==
  \/ value = Empty
  \/ LET num == parseFloat(value)
     IN ~(isNaN(num) \/ num[1] < -180 \/ num[1] > 180)

\* validationResult: a latitude/longitude error counts when its value is truthy
relevantErrors(req) ==
  \/ req.qrToken = ""
  \/ ~validLatitude(req.latitude) /\ req.latitude # Empty
  \/ ~validLongitude(req.longitude) /\ req.longitude # Empty

\* const lat = latitude ? parseFloat(latitude) : null
formCoordinate(value) == IF value # Empty THEN Number(parseFloat(value)) ELSE Null

\* sms-webhook lines 488-497; parts holds what follows "REPORT <token>"
smsCoordinates(parts) ==
  IF Len(parts) >= 2 /\ ~isNaN(parseFloat(parts[1])) /\ ~isNaN(parseFloat(parts[2]))
  THEN [lat |-> Number(parseFloat(parts[1])), lng |-> Number(parseFloat(parts[2]))]
  ELSE [lat |-> Null, lng |-> Null]

coordinates(req) ==
  IF req.path = "sms-webhook" THEN smsCoordinates(req.parts)
  ELSE [lat |-> formCoordinate(req.latitude), lng |-> formCoordinate(req.longitude)]

\* lines 406-432: the webhook format, detected from the body
webhookSource(req) ==
  IF req.source = "Twilio" THEN "Twilio"
  ELSE IF req.source \in {"Telerivet", "incoming_message", "message_received"}
  THEN "Telerivet"
  ELSE "Unknown"

\* lines 650: the format detected anew in the catch block
isTelerivet(req) == req.source \in {"Telerivet", "incoming_message"}

\* format of the answers of the form endpoints
formFormat(req) ==
  IF req.path = "report" /\ ~req.programmatic THEN "html" ELSE "json"

\* an error answer; the webhook answers all but a Telerivet request with an
\* XML message by res.send, whose status is 200
Answer(req, status, error) ==
  IF req.path = "sms-webhook" /\ webhookSource(req) # "Telerivet"
  THEN [status |-> 200, success |-> FALSE, count |-> <<>>, format |-> "xml",
        error |-> error]
  ELSE [status |-> status, success |-> FALSE, count |-> <<>>,
        format |-> formFormat(req), error |-> error]

\* the answer of the catch block
ServerError(req) ==
  IF req.path = "sms-webhook" /\ ~isTelerivet(req)
  THEN [status |-> 200, success |-> FALSE, count |-> <<>>, format |-> "xml",
        error |-> "error processing"]
  ELSE [status |-> 500, success |-> FALSE, count |-> <<>>,
        format |-> formFormat(req), error |-> "error processing"]

SendOutcomes == {"sent", "failed", "threw"}

\* (variant: the send promise has no catch handler)
withoutCatch(o) == o

\* .catch(err => ({ success: false })) on every send promise
catchSendError(o) == IF o = "threw" THEN "caught" ELSE o

successCount(res) == Cardinality({i \in 1..Len(res) : res[i] = "sent"})

\* the answer after Promise.all has resolved
Success(req, n, res) ==
  [status |-> 200, success |-> TRUE,
   count |-> IF req.path = "report" THEN <<n>>
             ELSE IF req.path = "sms-webhook" /\ webhookSource(req) = "Telerivet"
             THEN <<successCount(res)>>
             ELSE <<>>,
   format |-> IF req.path = "sms-webhook" /\ webhookSource(req) # "Telerivet"
              THEN "xml" ELSE formFormat(req),
   error |-> ""]

Arrive(req) ==
  /\ spc = "idle"
  /\ handled < MaxRequests
  /\ request' = req
  /\ contacts' = <<>>
  /\ created' = FALSE
  /\ results' = <<>>
  /\ launched' = <<>>
  /\ silent' = 0

Reply(r) ==
  /\ response' = r
  /\ spc' = "idle"
  /\ handled' = handled + 1

Await(label) ==
  /\ spc' = label
  /\ UNCHANGED <<response, handled>>

\* POST /report, up to the vehicle lookup
report(req) ==
  /\ req.path = "report"
  /\ Arrive(req)
  /\ IF relevantErrors(req) THEN Reply(Answer(req, 400, "validation"))
     ELSE Await("findUnique") 
  /\ UNCHANGED <<accidentReports, clientVars, smsVars, emailVars, otherVars>>

\* POST /report-offline, up to the vehicle lookup
reportOffline(req) ==
  /\ req.path = "report-offline"
  /\ Arrive(req)
  /\ IF relevantErrors(req) THEN Reply(Answer(req, 400, "validation"))
     ELSE Await("findUnique")
  /\ UNCHANGED <<accidentReports, clientVars, smsVars, emailVars, otherVars>>

\* (variant: the command is compared without regard to case)
invalidFormatIgnoringCase(req) == req.command \notin {"REPORT", "report"}

\* parts[0] !== 'REPORT'
invalidFormat(req) == req.command # "REPORT"

\* POST /sms-webhook, up to the vehicle lookup
smsWebhook(req) ==
  /\ req.path = "sms-webhook"
  /\ Arrive(req)
  /\ IF ~req.body
     THEN Reply([status |-> 400, success |-> FALSE, count |-> <<>>,
                 format |-> "json", error |-> "no body"])
     ELSE IF invalidFormat(req)
     THEN Reply(Answer(req, 400, "invalid format"))
     ELSE IF req.qrToken = ""
     THEN Reply(Answer(req, 400, "missing token"))
     ELSE Await("findUnique")
  /\ UNCHANGED <<accidentReports, clientVars, smsVars, emailVars, otherVars>>

\* prisma.vehicle.findUnique has answered; n contacts come with the vehicle
FindVehicle(n) ==
  /\ spc = "findUnique"
  /\ IF request.qrToken # "known"
     THEN Reply(Answer(request, 404, "not found")) /\ UNCHANGED contacts
     ELSE /\ contacts' = <<n>>
          /\ IF request.path = "sms-webhook" /\ n = 0
             THEN Reply(Answer(request, 400, "no contacts"))
             ELSE Await("create")
  /\ UNCHANGED <<request, created, results, accidentReports, fanVars,
                 clientVars, smsVars, emailVars, otherVars>>

\* prisma.accidentReport.create has answered
CreateReport(o) ==
  /\ spc = "create"
  /\ IF o = "ok"
     THEN /\ accidentReports' = Append(accidentReports, coordinates(request))
          /\ created' = TRUE
          /\ Await("created")
     ELSE /\ Reply(ServerError(request))
          /\ UNCHANGED <<accidentReports, created>>
  /\ UNCHANGED <<request, contacts, results, fanVars, clientVars, smsVars,
                 emailVars, otherVars>>

\* (variant: every endpoint sends email)
emailOnly(path) == "email"

\* /report sends email; /report-offline and /sms-webhook send SMS
channel(path) == IF path = "report" THEN "email" ELSE "sms"

\* the handler goes on after the create: emergencyContacts.map launches one
\* send per contact
LaunchNotifications ==
  /\ spc = "created"
  /\ launched' = [i \in 1..contacts[1] |-> channel(request.path)]
  /\ Await("notify")
  /\ UNCHANGED <<request, contacts, created, results, accidentReports, silent,
                 clientVars, smsVars, emailVars, otherVars>>

\* the send to the next contact has settled
SendSettles(o) ==
  /\ spc = "notify"
  /\ Len(results) + silent < Len(launched)
  /\ \A i \in 1..Len(results) : results[i] # "threw"
  /\ results' = Append(results, catchSendError(o))
  /\ UNCHANGED <<request, spc, contacts, created, response, accidentReports,
                 handled, fanVars, clientVars, smsVars, emailVars, otherVars>>

\* every email provider call has a timeout (the https requests, the SMTP
\* transports); the https request of sendViaFast2SMS has none
hasTimeout(kind) == kind = "email"

\* the provider of the next send never answers: with a timeout the send
\* settles as failed, without one it never settles
ProviderSilent ==
  /\ spc = "notify"
  /\ Len(results) + silent < Len(launched)
  /\ \A i \in 1..Len(results) : results[i] # "threw"
  /\ IF hasTimeout(launched[Len(results) + silent + 1])
     THEN results' = Append(results, "failed") /\ UNCHANGED silent
     ELSE silent' = silent + 1 /\ UNCHANGED results
  /\ UNCHANGED <<request, spc, contacts, created, response, accidentReports,
                 handled, launched, clientVars, smsVars, emailVars, otherVars>>

\* (variant: the answer does not wait for the sends)
RespondWithoutWaiting ==
  /\ spc = "notify"
  /\ Reply(Success(request, contacts[1], results))
  /\ UNCHANGED <<request, contacts, created, results, accidentReports, fanVars,
                 clientVars, smsVars, emailVars, otherVars>>

\* Promise.all has settled: the success answer, or the catch block's answer
Respond ==
  /\ spc = "notify"
  /\ IF \E i \in 1..Len(results) : results[i] = "threw"
     THEN Reply(ServerError(request))
     ELSE /\ Len(results) = Len(launched)
          /\ Reply(Success(request, contacts[1], results))
  /\ UNCHANGED <<request, contacts, created, results, accidentReports, fanVars,
                 clientVars, smsVars, emailVars, otherVars>>

NextServer ==
  \/ spc = "idle" /\ handled < MaxRequests /\ \E req \in Requests : report(req)
  \/ spc = "idle" /\ handled < MaxRequests /\ \E req \in Requests : reportOffline(req)
  \/ spc = "idle" /\ handled < MaxRequests /\ \E req \in Requests : smsWebhook(req)
  \/ \E n \in 0..MaxContacts : FindVehicle(n)
  \/ \E o \in {"ok", "error"} : CreateReport(o)
  \/ LaunchNotifications
  \/ ProviderSilent
  \/ \E o \in SendOutcomes : SendSettles(o)
  \/ Respond

SpecServer == Init /\ [][NextServer]_vars

\* the event loop runs every continuation that is ready, and the database and
\* the providers that do answer answer in the end
SpecServerFair == SpecServer /\ WF_vars(NextServer)

\* ---- the SMS service (services/sms.js) ----
nonSmsVars == <<clientVars, serverVars, emailVars, otherVars>>

Text(field, len) == [field |-> field, len |-> len, whole |-> TRUE]
NL == Text("nl", 1)

RECURSIVE length(_)
length(msg) == IF msg = <<>> THEN 0 ELSE Head(msg).len + length(Tail(msg))

\* text.substring(0, end): a negative end counts as 0, one past the end as the end
substring(text, end) ==
  IF end >= text.len THEN text
  ELSE [text EXCEPT !.len = IF end > 0 THEN end ELSE 0, !.whole = FALSE]

\* text.length > max ? text.substring(0, max - 3) + '...' : text
shorten(text, max) ==
  IF text.len > max
  THEN [text EXCEPT !.len = substring(text, max - Ellipsis).len + Ellipsis,
                    !.whole = FALSE]
  ELSE text

\* message.split('\n'): part k lies between newline k-1 and newline k
newlines(msg) == {i \in 1..Len(msg) : msg[i].field = "nl"}
nlPos(msg, k) ==
  IF k = 0 THEN 0
  ELSE IF k > Cardinality(newlines(msg)) THEN Len(msg) + 1
  ELSE CHOOSE i \in newlines(msg) :
         Cardinality({j \in newlines(msg) : j <= i}) = k
split(msg) ==
  [k \in 1..(Cardinality(newlines(msg)) + 1) |->
     SubSeq(msg, nlPos(msg, k - 1) + 1, nlPos(msg, k) - 1)]

isIndianNumber(phoneNumber) ==
  phoneNumber.len = 10 \/ (phoneNumber.starts91 /\ phoneNumber.len = 12)

vehicleLine(a) ==
  a.plate + (IF a.model > 0 THEN 1 + a.model ELSE 0)
          + (IF a.color > 0 THEN 1 + a.color ELSE 0)

mapsLink(a) ==
  IF a.lat > 0 /\ a.lng > 0 THEN MapsPrefixLen + a.lat + 1 + a.lng ELSE 0

\* lines 169-202: the message before the final check
compose(a) ==
  <<Text("header", HeaderLen), NL, Text("vehicle", vehicleLine(a)), NL,
    Text("time", TimeLen), NL>>
  \o (IF mapsLink(a) > 0 THEN <<Text("maps", mapsLink(a)), NL>>
      ELSE IF a.loc > 0 THEN <<shorten(Text("loc", a.loc), ShortLoc), NL>>
      ELSE <<>>)
  \o (IF a.note > 0 THEN <<shorten(Text("note", a.note), ShortNote)>> ELSE <<>>)

\* lines 207-232: the final check
truncate(msg) ==
  IF length(msg) + 1 + FooterLen > SmsLimit
  THEN LET maxLength == SmsLimit - (1 + FooterLen)
           essentialParts == split(msg)
           truncatedMessage ==
             essentialParts[1] \o <<NL>> \o essentialParts[2] \o <<NL>>
               \o essentialParts[3] \o <<NL>>
           remainingSpace == maxLength - length(truncatedMessage)
           part3 == IF essentialParts[4] # <<>>
                    THEN <<shorten(essentialParts[4][1], remainingSpace)>>
                    ELSE <<>>
           remainingSpace2 == remainingSpace - length(part3)
           part4 == IF Len(essentialParts) >= 5 /\ essentialParts[5] # <<>>
                       /\ remainingSpace2 > MinRoom
                    THEN <<shorten(essentialParts[5][1], remainingSpace2)>>
                    ELSE <<>>
       IN truncatedMessage \o part3 \o part4
  ELSE msg

\* sendAccidentAlertSMS is called: the message is built
sendAccidentAlertSMS(a) ==
  /\ smsPc = "idle"
  /\ sms' = a
  /\ message' = compose(a)
  /\ smsPc' = "check"
  /\ UNCHANGED <<tried, smsResult, nonSmsVars>>

\* the final check and the footer
FinalCheck ==
  /\ smsPc = "check"
  /\ message' = truncate(message) \o <<NL, Text("footer", FooterLen)>>
  /\ smsPc' = "send"
  /\ UNCHANGED <<sms, tried, smsResult, nonSmsVars>>

Return(r) ==
  /\ smsResult' = r
  /\ smsPc' = "done"

\* lines 250-263: the provider is chosen
ChooseProvider ==
  /\ smsPc = "send"
  /\ IF isIndianNumber(sms.phone) /\ sms.fast2sms
     THEN smsPc' = "fast2sms" /\ UNCHANGED smsResult
     ELSE IF sms.twilio
     THEN smsPc' = "twilio" /\ UNCHANGED smsResult
     ELSE Return("failed")
  /\ UNCHANGED <<sms, message, tried, nonSmsVars>>

ProviderAnswers == {"accepted", "rejected"}

\* (variant: the catch block gives up without trying the fallback)
catchWithoutFallback == Return("failed")

\* the catch block of lines 264-280, entered from the first provider
catch ==
  IF isIndianNumber(sms.phone) /\ sms.fast2sms /\ sms.twilio
  THEN smsPc' = "fallback" /\ UNCHANGED smsResult
  ELSE Return("failed")

\* sendViaFast2SMS settles
sendViaFast2SMS(o) ==
  /\ smsPc = "fast2sms"
  /\ tried' = Append(tried, <<"Fast2SMS", o>>)
  /\ IF o = "accepted" THEN Return("success") ELSE catch
  /\ UNCHANGED <<sms, message, nonSmsVars>>

\* sendViaTwilio settles, as the first provider or as the fallback
sendViaTwilio(o) ==
  /\ smsPc \in {"twilio", "fallback"}
  /\ tried' = Append(tried, <<"Twilio", o>>)
  /\ IF o = "accepted" THEN Return("success")
     ELSE IF smsPc = "twilio" THEN catch
     ELSE Return("failed")
  /\ UNCHANGED <<sms, message, nonSmsVars>>

NextSms ==
  \/ smsPc = "idle" /\ \E a \in SmsInputs : sendAccidentAlertSMS(a)
  \/ FinalCheck
  \/ ChooseProvider
  \/ \E o \in ProviderAnswers : sendViaFast2SMS(o)
  \/ \E o \in ProviderAnswers : sendViaTwilio(o)

SpecSms == Init /\ [][NextSms]_vars

\* ---- the email service (services/email.js) ----
nonEmailVars == <<clientVars, serverVars, smsVars, otherVars>>

\* the blocks of sendAccidentAlertEmail, in the order of the code
Providers == <<"Brevo API", "Brevo SMTP", "Mailgun", "Resend", "SendGrid", "SMTP">>
Returned == Len(Providers) + 1
Services == {Providers[p] : p \in 1..Len(Providers)}

\* sendAccidentAlertEmail is called with the services of the environment
sendAccidentAlertEmail(config) ==
  /\ emailPc = 0
  /\ emailConfig' = config
  /\ IF config = {}
     THEN emailResult' = "failed" /\ emailPc' = Returned
     ELSE emailPc' = 1 /\ UNCHANGED emailResult
  /\ UNCHANGED <<attempts, nonEmailVars>>

\* (variant: the block does not return when its service accepted)
CallServiceAndGoOn(o) ==
  /\ emailPc \in 1..Len(Providers)
  /\ Providers[emailPc] \in emailConfig
  /\ attempts' = Append(attempts, <<Providers[emailPc], o>>)
  /\ emailPc' = emailPc + 1
  /\ emailResult' = IF o = "accepted" THEN "success" ELSE emailResult
  /\ UNCHANGED <<emailConfig, nonEmailVars>>

\* the block of a configured service: its call settles
CallService(o) ==
  /\ emailPc \in 1..Len(Providers)
  /\ Providers[emailPc] \in emailConfig
  /\ attempts' = Append(attempts, <<Providers[emailPc], o>>)
  /\ IF o = "accepted"
     THEN emailResult' = "success" /\ emailPc' = Returned
     ELSE \* the block's catch logs the failure; the next block follows
          /\ emailPc' = emailPc + 1
          /\ emailResult' = IF emailPc = Len(Providers) THEN "failed" ELSE emailResult
  /\ UNCHANGED <<emailConfig, nonEmailVars>>

\* the block of a service that is not configured is skipped
SkipService ==
  /\ emailPc \in 1..Len(Providers)
  /\ Providers[emailPc] \notin emailConfig
  /\ emailPc' = emailPc + 1
  /\ emailResult' = IF emailPc = Len(Providers) THEN "failed" ELSE emailResult
  /\ UNCHANGED <<emailConfig, attempts, nonEmailVars>>

NextEmail ==
  \/ \E config \in SUBSET Services : sendAccidentAlertEmail(config)
  \/ \E o \in ProviderAnswers : CallService(o)
  \/ SkipService

SpecEmail == Init /\ [][NextEmail]_vars

\* ---- the parser of an inbound SMS (routes/accidents.js, /sms-webhook) ----
nonParseVars == <<clientVars, serverVars, smsVars, emailVars, imageVars, coordVars>>

NumberWords == {"12.97", "77.59"}
SmsWords == NumberWords \cup {"NOTE", "LOCATION", "car"}
VehicleTokens == {"tok123", "NOTE", "LOCATION"}

RECURSIVE WordSeqs(_)
WordSeqs(n) ==
  IF n = 0 THEN {<<>>}
  ELSE LET shorter == WordSeqs(n - 1)
       IN shorter \cup {Append(q, w) : q \in {x \in shorter : Len(x) = n - 1},
                                         w \in SmsWords}

\* messageBody.trim().split(/\s+/) of the messages that pass the command
\* and token tests
SmsTexts == {<<"REPORT", tok>> \o q : tok \in VehicleTokens, q \in WordSeqs(MaxWords)}

\* parseFloat of a word: <<>> for NaN, else the number, named by its text
parseFloatWord(word) == IF word \in NumberWords THEN <<word>> ELSE <<>>

\* parts.indexOf(word, fromIndex); positions count from 1 here, 0: not found
indexOf(parts, word, fromIndex) ==
  LET found == {i \in fromIndex..Len(parts) : parts[i] = word}
  IN IF found = {} THEN 0 ELSE CHOOSE i \in found : \A j \in found : i <= j

\* parts.slice(start, end).join(' '): the string, as the sequence of its words
slice(parts, start, end) == <<SubSeq(parts, start, end - 1)>>

\* parts[i] is defined (and, being a word, truthy)
defined(parts, i) == i <= Len(parts)

\* lines 487-525: lat, lng, manualLocation, helperNote; <<>> stands for null
parseParts(parts) ==
  IF Len(parts) >= 4 /\ ~isNaN(parseFloatWord(parts[3]))
       /\ ~isNaN(parseFloatWord(parts[4]))
  THEN LET noteIndex == indexOf(parts, "NOTE", 1)
       IN [lat |-> parseFloatWord(parts[3]), lng |-> parseFloatWord(parts[4]),
           manualLocation |-> <<>>,
           helperNote |->
             IF Len(parts) > 4 /\ noteIndex # 0 /\ defined(parts, noteIndex + 1)
             THEN slice(parts, noteIndex + 1, Len(parts) + 1)
             ELSE <<>>]
  ELSE LET locationIndex == indexOf(parts, "LOCATION", 1)
       IN IF locationIndex # 0 /\ defined(parts, locationIndex + 1)
          THEN LET noteIndex == indexOf(parts, "NOTE", locationIndex)
               IN IF noteIndex # 0 /\ defined(parts, noteIndex + 1)
                  THEN [lat |-> <<>>, lng |-> <<>>,
                        manualLocation |-> slice(parts, locationIndex + 1, noteIndex),
                        helperNote |-> slice(parts, noteIndex + 1, Len(parts) + 1)]
                  ELSE [lat |-> <<>>, lng |-> <<>>,
                        manualLocation |->
                          slice(parts, locationIndex + 1, Len(parts) + 1),
                        helperNote |-> <<>>]
          ELSE LET noteIndex == indexOf(parts, "NOTE", 1)
               IN [lat |-> <<>>, lng |-> <<>>, manualLocation |-> <<>>,
                   helperNote |->
                     IF noteIndex # 0 /\ defined(parts, noteIndex + 1)
                     THEN slice(parts, noteIndex + 1, Len(parts) + 1)
                     ELSE <<>>]

\* the webhook reads a message
ParseSms(parts) ==
  /\ parsed = <<>>
  /\ smsText' = parts
  /\ parsed' = <<parseParts(parts)>>
  /\ UNCHANGED nonParseVars

NextParse == parsed = <<>> /\ \E parts \in SmsTexts : ParseSms(parts)

SpecParse == Init /\ [][NextParse]_vars

\* ---- the image store (offline-storage.js) ----
nonImageVars == <<clientVars, serverVars, smsVars, emailVars, parseVars, coordVars>>

\* base64 text of bytes: one symbol per byte here; "" for no bytes
btoa(bytes) == [i \in 1..Len(bytes) |-> <<"b64", bytes[i]>>]
atob(base64) == [i \in 1..Len(base64) |-> base64[i][2]]

\* fileToBase64: reader.result.split(',')[1]
fileToBase64(file) == btoa(file.bytes)

\* base64ToFile
base64ToFile(base64String, filename, mimeType) ==
  [bytes |-> atob(base64String), name |-> filename, type |-> mimeType]

\* x || fallback for strings
orElse(x, fallback) == IF x # "" THEN x ELSE fallback

\* the record storeImage adds (base64 encoding)
imageData(file, reportId) ==
  [reportId |-> reportId, encoding |-> "base64", data |-> fileToBase64(file),
   filename |-> orElse(file.name, "image_now.jpg"),
   type |-> orElse(file.type, "image/jpeg")]

\* the record the earlier storeImage added (ArrayBuffer encoding)
imageDataArrayBuffer(file, reportId) ==
  [reportId |-> reportId, encoding |-> "blob", data |-> file.bytes,
   filename |-> orElse(file.name, "image_now.jpg"),
   type |-> orElse(file.type, "image/jpeg")]

\* storeImage with the file's contents: store.add succeeded or failed
storeImageBase64(file, reportId, o) ==
  /\ Len(stored) < MaxStored
  /\ IF o = "ok"
     THEN /\ stored' = Append(stored, imageData(file, reportId))
          /\ attachedFiles' =
               [attachedFiles EXCEPT ![reportId] = Append(@, file)]
     ELSE UNCHANGED <<stored, attachedFiles>>
  /\ UNCHANGED nonImageVars

\* storeImage of the earlier version of the page
storeImageArrayBuffer(file, reportId, o) ==
  /\ Len(stored) < MaxStored
  /\ IF o = "ok"
     THEN /\ stored' = Append(stored, imageDataArrayBuffer(file, reportId))
          /\ attachedFiles' =
               [attachedFiles EXCEPT ![reportId] = Append(@, file)]
     ELSE UNCHANGED <<stored, attachedFiles>>
  /\ UNCHANGED nonImageVars

\* the conversion of one record in getReportImages: <<>> stands for null
toFile(img) ==
  IF img.encoding = "base64" /\ img.data # <<>>
  THEN <<base64ToFile(img.data, img.filename, img.type)>>
  ELSE IF img.encoding = "blob" /\ Len(img.data) # 0
  THEN <<[bytes |-> img.data, name |-> img.filename, type |-> img.type]>>
  ELSE <<>>

RECURSIVE convertAll(_)
convertAll(rows) ==
  IF rows = <<>> THEN <<>>
  ELSE LET file == toFile(Head(rows))
       IN (IF file # <<>> /\ Len(file[1].bytes) > 0 THEN file ELSE <<>>)
            \o convertAll(Tail(rows))

\* getReportImages with the files' contents: index.getAll(reportId), then map
\* and filter
getReportImageFiles(reportId) ==
  convertAll(SelectSeq(stored, LAMBDA img : img.reportId = reportId))

NextImages ==
  \/ \E file \in Files, q \in QueueIds, o \in {"ok", "error"} : storeImageBase64(file, q, o)
  \/ \E file \in Files, q \in QueueIds, o \in {"ok", "error"} :
       storeImageArrayBuffer(file, q, o)

SpecImages == Init /\ [][NextImages]_vars

\* ---- coordinates from the queue to the alert ----
nonCoordVars == <<clientVars, serverVars, smsVars, emailVars, parseVars, imageVars>>

\* if (value): a number other than 0, or a text that is not empty
truthy(value) ==
  \/ value.kind = "number" /\ value.n # 0
  \/ value.kind = "string"

\* formData.append(name, value) under if (value): the field holds the value's
\* text; a field that is not appended reads as Empty on the server
appendIfTruthy(value) ==
  IF truthy(value) THEN [digits |-> <<value.n>>, rest |-> FALSE] ELSE Empty

\* lat && lng on the column values
bothTruthy(lat, lng) ==
  /\ lat[1] = "num" /\ lat[2] # 0
  /\ lng[1] = "num" /\ lng[2] # 0

\* sendAccidentAlertEmail line 578: the link, as the pair it is built from
emailMapsLink(lat, lng) == IF bothTruthy(lat, lng) THEN <<lat[2], lng[2]>> ELSE <<>>

\* queueReport stores reportData as it is
queueCoordinates(latitude, longitude) ==
  /\ cpc = "none"
  /\ queued' = [latitude |-> latitude, longitude |-> longitude]
  /\ cpc' = "queued"
  /\ UNCHANGED <<payload, persisted, link, nonCoordVars>>

\* syncReport lines 70-76
buildFormData ==
  /\ cpc = "queued"
  /\ payload' = [latitude |-> appendIfTruthy(queued.latitude),
                 longitude |-> appendIfTruthy(queued.longitude)]
  /\ cpc' = "sent"
  /\ UNCHANGED <<queued, persisted, link, nonCoordVars>>

\* POST /report lines 111-112 and 150-160, for a body that passes validation
createAccidentReport ==
  /\ cpc = "sent"
  /\ validLatitude(payload.latitude) /\ validLongitude(payload.longitude)
  /\ persisted' = [lat |-> formCoordinate(payload.latitude),
                   lng |-> formCoordinate(payload.longitude)]
  /\ cpc' = "persisted"
  /\ UNCHANGED <<queued, payload, link, nonCoordVars>>

\* POST /report lines 171-176: the alert is built from lat and lng
buildAlert ==
  /\ cpc = "persisted"
  /\ link' = emailMapsLink(persisted.lat, persisted.lng)
  /\ cpc' = "alerted"
  /\ UNCHANGED <<queued, payload, persisted, nonCoordVars>>

NextCoordinates ==
  \/ cpc = "none" /\ \E latitude, longitude \in JsValues :
                       queueCoordinates(latitude, longitude)
  \/ buildFormData
  \/ createAccidentReport
  \/ buildAlert

SpecCoordinates == Init /\ [][NextCoordinates]_vars

TypeOK ==
  /\ lastSync \in Oldest..now
  /\ lock # <<>> => lock[1] = lastSync
  /\ online \in BOOLEAN
  /\ DOMAIN reports \subseteq Ids
  /\ \A t \in Tabs : isSyncing[t] <=> pc[t] # "idle"

\* ---- vocabulary of the properties ----
Draining(t) == pc[t] # "idle"
AllIdle == \A t \in Tabs : pc[t] = "idle"

\* the snapshot entry tab t has just finished with (it got a response, or a
\* network error, and the entry was removed or requeued)
Handled(t) == pc[t] = "loop" /\ resp[t] # <<>>
PrevReport(t) == pendingReports[t][idx[t] - 1]

\* C1: with two tabs syncing over the same queue and lock record, no queue
\* entry is accepted by the ingestion endpoint more than once (runs without
\* storage failure and without a closed tab).
C1_AtMostOneAcceptance ==
  (faults = 0 /\ closes = 0) => \A i \in Ids : accepted[i] <= 1

\* C2: no two sync cycles are in their locked, draining phase at the same time.
C2_MutualExclusion ==
  \A t, u \in Tabs : t # u => ~(Draining(t) /\ Draining(u))

\* C3: when a failed submission leaves an entry with retryCount >= 5, the
\* entry is parked as permanently_failed instead of going back to pending.
C3_ParkedAtFive ==
  \A t \in Tabs :
    (Handled(t) /\ resp[t] # <<OkStatus>> /\ PrevReport(t).id \in DOMAIN reports)
      => (reports[PrevReport(t).id].retryCount >= RETRY_LIMIT
            => reports[PrevReport(t).id].status = "permanently_failed")

\* C4: unless a tab was closed in the middle of a cycle, an entry the endpoint
\* has accepted is never put into a submission again.
C4_AcceptedNeverResubmitted ==
  closes = 0 =>
    \A t \in Tabs : pc[t] = "fetch" => accepted[CurrentReport(t).id] = 0

\* C5: when no cycle is running, no queued report is lost (an id leaves the
\* queue only after an acceptance) and none is left in syncing or failed,
\* storage failures during the cycle included.
C5_PendingAfterStorageFailure ==
  (closes = 0 /\ AllIdle) =>
    /\ \A i \in 1..(nextId - 1) : i \notin DOMAIN reports => accepted[i] >= 1
    /\ \A i \in DOMAIN reports : reports[i].status \notin {"syncing", "failed"}

C7_PermanentlyFailedIsAbsorbing ==
  [][\A i \in DOMAIN reports :
       reports[i].status = "permanently_failed"
         => (i \in DOMAIN reports' /\ reports'[i] = reports[i])]_vars

\* C8: a report leaves pending only when every image of it has been stored.
C8_ImagesBeforeSync ==
  \A i \in DOMAIN reports : reports[i].status # "pending" => toAttach[i] = 0

\* C9: whenever a cycle that acquired the locks ends (completion, early return
\* or exception), isSyncing is false and the durable lock record is removed.
CycleEnds(t) == Draining(t) /\ pc'[t] = "idle" /\ closes' = closes

C9_LocksReleased ==
  [][\A t \in Tabs : CycleEnds(t) => (~isSyncing'[t] /\ lock' = <<>>)]_vars

\* a cycle has ended by an exception: with no tab closed and no cycle running,
\* an entry is still marked syncing
C9_Witness ==
  /\ cycles > 0 /\ closes = 0 /\ AllIdle
  /\ \A t \in Tabs : ~isSyncing[t]
  /\ lock = <<>>
  /\ \E i \in DOMAIN reports : reports[i].status = "syncing"

\* C10: a lock record older than 30 s does not block: a trigger in a tab whose
\* flag is clear, online and outside the cooldown, starts a cycle.
StartCycle(t) == syncAllPendingReports(t) /\ pc'[t] = "get1" /\ lock' = <<now>>

C10_StaleLockDoesNotBlock ==
  \A t \in Tabs :
    ( /\ lock # <<>> /\ now - lock[1] > SYNC_LOCK_TIMEOUT
      /\ ~isSyncing[t] /\ pc[t] = "idle"
      /\ online /\ ~(now - lastSync < SYNC_COOLDOWN)
      /\ cycles < MaxCycles )
      => ENABLED StartCycle(t)

\* a tab was closed in its cycle, and the cycle now starting removed the
\* lock that tab left behind
C10_Witness ==
  /\ closes > 0 /\ tookStale
  /\ \E t \in Tabs :
       /\ pc[t] = "get1" /\ lock = <<now>>
       /\ \A u \in Tabs \ {t} : pc[u] = "idle"

C12_FailureDoesNotBlock ==
  [][\A t \in Tabs :
       (faults' = 0 /\ closes' = closes) =>
         /\ (pc[t] \notin {"idle", "get1", "get2"} /\ pc'[t] = "idle")
              => (pc[t] = "loop" /\ idx[t] > Len(pendingReports[t]))
         /\ (idx[t] >= 1 /\ idx'[t] = idx[t] + 1)
              => \/ resp'[t] # <<>>
                 \/ /\ pc[t] = "loop"
                    /\ ~(/\ CurrentReport(t).id \in DOMAIN reports
                         /\ reports[CurrentReport(t).id].status = "pending")
         /\ (pc[t] = "fetch" /\ pc'[t] # "fetch")
              => (resp[t] = <<>> /\ resp'[t] # <<>>)]_vars

\* the first entry of the snapshot failed and went back to pending, the second
\* one is being submitted
C12_Witness ==
  \E t \in Tabs :
    /\ faults = 0 /\ closes = 0 /\ cycles = 1
    /\ pc[t] = "fetch" /\ idx[t] = 2
    /\ pendingReports[t][1].id \in DOMAIN reports
    /\ reports[pendingReports[t][1].id].status = "pending"
    /\ reports[pendingReports[t][1].id].retryCount = pendingReports[t][1].retryCount + 1

\* C13: when the endpoint answers 500 to a fresh entry (pending, retryCount 0),
\* the cycle leaves the entry in the queue, pending again, with retryCount 1.
C13_FreshEntryAfter500 ==
  \A t \in Tabs :
    (Handled(t) /\ resp[t] = <<500>> /\ PrevReport(t).retryCount = 0)
      => /\ PrevReport(t).id \in DOMAIN reports
         /\ reports[PrevReport(t).id] = [status |-> "pending", retryCount |-> 1]

C13_Witness ==
  \E t \in Tabs :
    /\ cycles = 1 /\ Handled(t) /\ resp[t] = <<500>>
    /\ PrevReport(t).retryCount = 0
    /\ PrevReport(t).id \in DOMAIN reports
    /\ reports[PrevReport(t).id].retryCount = 1

\* C14 (as claimed): an invocation while offline changes nothing at all, the
\* lock record included.
C14_OfflineIsNoOp ==
  [][\A t \in Tabs : (syncAllPendingReports(t) /\ ~online) => UNCHANGED vars]_vars

\* C14 (amended): an invocation while offline sends nothing, changes no queue
\* entry, no flag and not the last-sync timestamp; the one thing it may do is
\* remove a lock record older than 30 s.
C14_OfflineKeepsAllButStaleLock ==
  [][\A t \in Tabs :
       (syncAllPendingReports(t) /\ ~online) =>
         /\ UNCHANGED <<lastSync, dbVars, accepted, tabVars>>
         /\ \/ lock' = lock
            \/ /\ lock # <<>> /\ now - lock[1] > SYNC_LOCK_TIMEOUT
               /\ lock' = <<>>]_vars

\* the only cycle started so far was cut off by closing its tab, and its lock
\* record has been removed while offline
C14_Witness ==
  /\ ~online /\ closes = 1 /\ cycles = 1 /\ AllIdle
  /\ lock = <<>> /\ sinceStart > SYNC_LOCK_TIMEOUT

\* C15: triggers that arrive while a timer of the tab is waiting coalesce:
\* every burst of triggers leads to exactly one call of syncAllPendingReports
\* in that tab (one call per burst once no timer is waiting, never more).
C15_TriggersCoalesce ==
  \A t \in Tabs :
    /\ onlineSyncTimeout[t] <= 1
    /\ invoked[t] + onlineSyncTimeout[t] = bursts[t]

\* a burst of three triggers in one tab has led to one call
C15_Witness ==
  \E t \in Tabs :
    /\ triggers = MaxTriggers /\ bursts[t] = 1 /\ invoked[t] = 1
    /\ onlineSyncTimeout[t] = 0
    /\ \A u \in Tabs \ {t} : bursts[u] = 0

\* C16: removeReport is atomic over the report and its images: no step makes
\* the report disappear while an image of it stays, or an image disappear
\* while the report stays; and when the call has reported completion and its
\* transaction has finished, the report and its images are gone.
C16_RemoveIsAtomic ==
  [][/\ \A r \in Ids :
          /\ (r \in DOMAIN reports /\ r \notin DOMAIN reports')
               => SelectImages(images', r) = <<>>
          /\ Len(SelectImages(images', r)) < Len(SelectImages(images, r))
               => r \notin DOMAIN reports'
     /\ (~TxIdle /\ tx'.phase \in {"done", "aborted"} /\ removePromise' = "resolved")
          => /\ tx.id \notin DOMAIN reports'
             /\ SelectImages(images', tx.id) = <<>>]_vars

\* ---- vocabulary of the endpoint properties ----
Answered == spc = "idle" /\ response # NoResponse
InRange(c, lo, hi) == c = Null \/ (c[1] = "num" /\ lo <= c[2] /\ c[2] <= hi)

\* C17: once the report of a request is persisted, every contact is attempted
\* and the answer is a success, however many of the sends fail or throw.
C17_AcknowledgedOncePersisted ==
  (Answered /\ created) =>
    /\ response.success /\ response.status = 200
    /\ Len(results) = contacts[1]

\* every send of a persisted report failed, one by throwing, and the answer
\* is the success answer
C17_Witness ==
  /\ Answered /\ created /\ response.success
  /\ contacts = <<MaxContacts>> /\ Len(results) = MaxContacts
  /\ \A i \in 1..Len(results) : results[i] # "sent"
  /\ \E i \in 1..Len(results) : results[i] = "caught"

\* C18: a notified count in the answer is the number of contacts whose send
\* succeeded.
C18_CountIsSuccesses ==
  (Answered /\ created /\ response.count # <<>>)
    => response.count[1] = successCount(results)

\* C19: a valid submission for a vehicle without emergency contacts is
\* persisted and answered as a success, with a notified count of 0 where the
\* answer carries a count.
C19_ZeroContactsIsNoError ==
  (Answered /\ contacts = <<0>>) =>
    /\ created /\ response.success
    /\ response.count # <<>> => response.count[1] = 0

\* C20: every persisted report has lat null or in [-90, 90] and lng null or
\* in [-180, 180].
C20_CoordinatesInRange ==
  \A i \in 1..Len(accidentReports) :
    /\ InRange(accidentReports[i].lat, -90, 90)
    /\ InRange(accidentReports[i].lng, -180, 180)

\* ---- vocabulary of the coordinate validation property ----
FormPaths == {"report", "report-offline"}
numeric(value) == value.digits # <<>> /\ ~value.rest
Supplied(value) == value # Empty
BadLatitude(value) ==
  Supplied(value) /\ (~numeric(value) \/ value.digits[1] < -90 \/ value.digits[1] > 90)
BadLongitude(value) ==
  Supplied(value) /\ (~numeric(value) \/ value.digits[1] < -180 \/ value.digits[1] > 180)

\* C21: a form submission with a supplied latitude or longitude that is not a
\* number or is out of range is answered with a validation error (400); no
\* report is persisted for it and no notification attempt is launched.
C21_BadCoordinateRejected ==
  (request.path \in FormPaths
     /\ (BadLatitude(request.latitude) \/ BadLongitude(request.longitude))) =>
    /\ ~created /\ results = <<>> /\ spc \notin {"create", "created", "notify"}
    /\ Answered => response.status = 400

\* ---- vocabulary of the SMS properties ----
Signed == smsPc \in {"send", "fast2sms", "twilio", "fallback", "done"}
piece(field) == {i \in 1..Len(message) : message[i].field = field}

\* C22: whatever the lengths of license plate, model, color, manual location
\* and helper note within their caps, with or without coordinates, the SMS
\* body with its signature is at most 160 characters long.
C22_BodyFitsOneSegment ==
  Signed => length(message) <= SmsLimit

\* C23: fitting the body shortens only the helper note and the manual
\* location: header, vehicle line, timestamp and, with coordinates, the maps
\* link are in the sent body unmodified.
C23_MandatoryFieldsIntact ==
  Signed =>
    /\ \A f \in {"header", "vehicle", "time"} :
         \E i \in piece(f) : message[i].whole
    /\ mapsLink(sms) > 0 => \E i \in piece("maps") : message[i].whole

Regional == isIndianNumber(sms.phone) /\ sms.fast2sms
Tried(provider) == {i \in 1..Len(tried) : tried[i][1] = provider}
Accepted == \E i \in 1..Len(tried) : tried[i][2] = "accepted"

\* C25: for a contact with a regional number while the regional provider is
\* configured, the regional provider is called first; the international
\* provider is called if and only if the regional one failed and the
\* international one is configured; the call reports success iff a provider
\* that was called accepted the message, and it never throws.
C25_RegionalThenFallback ==
  (smsPc = "done" /\ Regional) =>
    /\ tried # <<>> /\ tried[1][1] = "Fast2SMS"
    /\ Cardinality(Tried("Fast2SMS")) = 1
    /\ Tried("Twilio") # {} <=> (tried[1][2] = "rejected" /\ sms.twilio)
    /\ \A i \in Tried("Twilio") : i = 2
    /\ smsResult = "success" <=> Accepted
    /\ smsResult \in {"success", "failed"}

\* the regional provider rejected, the international one accepted
C25_Witness ==
  /\ smsPc = "done" /\ Regional
  /\ tried = <<<<"Fast2SMS", "rejected">>, <<"Twilio", "accepted">>>>
  /\ smsResult = "success"

\* ---- vocabulary of the email property ----
priority(service) == CHOOSE p \in 1..Len(Providers) : Providers[p] = service

\* C24: the configured email services are called strictly in the order
\* Brevo API, Brevo SMTP, Mailgun, Resend, SendGrid, SMTP: a service is called
\* only after every configured service before it has failed, none is called
\* after one accepted, the result is success iff a configured service
\* accepted, and when all fail the result is a failed record, nothing thrown.
C24_ProvidersInPriorityOrder ==
  /\ \A i \in 1..Len(attempts) :
       /\ attempts[i][1] \in emailConfig
       /\ \A q \in emailConfig :
            priority(q) < priority(attempts[i][1]) =>
              \E j \in 1..(i - 1) : attempts[j] = <<q, "rejected">>
       /\ i < Len(attempts) => attempts[i][2] = "rejected"
       /\ \A j \in 1..(i - 1) : priority(attempts[j][1]) < priority(attempts[i][1])
  /\ emailPc = Returned =>
       /\ emailResult \in {"success", "failed"}
       /\ emailResult = "success" <=>
            \E i \in 1..Len(attempts) : attempts[i][2] = "accepted"
       /\ emailResult = "failed" =>
            \A q \in emailConfig : \E i \in 1..Len(attempts) : attempts[i][1] = q

\* two services failed, a third accepted, a fourth was never called
C24_Witness ==
  /\ emailPc = Returned /\ emailResult = "success"
  /\ Len(attempts) = 3 /\ attempts[3][2] = "accepted"
  /\ \E q \in emailConfig : \A i \in 1..Len(attempts) : attempts[i][1] # q

\* C26: a submission on the offline endpoint never invokes the email channel;
\* after the validation and the persistence of the normal endpoint it invokes
\* the SMS channel exactly once per emergency contact of the vehicle.
C26_OfflineSendsSmsOnly ==
  request.path = "report-offline" =>
    /\ \A i \in 1..Len(launched) : launched[i] = "sms"
    /\ launched # <<>> => created
    /\ created => ~relevantErrors(request) /\ request.qrToken = "known"
    /\ spc \in {"notify", "idle"} /\ created => Len(launched) = contacts[1]

\* an offline submission was answered after one SMS for each of the contacts
C26_Witness ==
  /\ request.path = "report-offline" /\ Answered /\ created
  /\ contacts = <<MaxContacts>>
  /\ launched = [i \in 1..MaxContacts |-> "sms"]

\* C27: for an accepted submission the report is persisted before any
\* notification attempt is launched, and the response is sent only after
\* every launched attempt has settled, succeeded or failed.
C27_PersistLaunchSettleRespond ==
  /\ launched # <<>> => created
  /\ Len(results) <= Len(launched)
  /\ (Answered /\ created) =>
       /\ Len(launched) = contacts[1]
       /\ Len(results) = Len(launched)

\* an accepted submission was answered after one send succeeded and the
\* others failed
C27_Witness ==
  /\ Answered /\ created /\ response.success
  /\ Len(launched) = MaxContacts /\ Len(results) = MaxContacts
  /\ successCount(results) = 1

\* C28: the fan-out always terminates: every provider call has a timeout, so
\* with a provider that never answers the attempt is settled as failed and
\* the response for the report is sent in the end.
C28_FanOutTerminates == (spc = "notify") ~> (spc = "idle")

\* C29: the format of every response to a webhook request is the one of the
\* shape detected at the start: JSON for the Telerivet shapes, the XML
\* envelope for the Twilio shape.
C29_FormatFollowsShape ==
  (request.path = "sms-webhook" /\ Answered) =>
    /\ webhookSource(request) = "Telerivet" => response.format = "json"
    /\ webhookSource(request) = "Twilio" => response.format = "xml"

\* C30: an inbound SMS whose first word is not exactly REPORT is rejected as
\* invalid format and one without a second word as missing token; in both
\* cases no vehicle is looked up, no report persisted, no notification sent.
C30_BadCommandRejected ==
  (request.path = "sms-webhook" /\ request.body
     /\ (request.command # "REPORT" \/ request.qrToken = "")) =>
    /\ spc = "idle" /\ ~response.success
    /\ response.error =
         (IF request.command # "REPORT" THEN "invalid format" ELSE "missing token")
    /\ contacts = <<>> /\ ~created /\ launched = <<>> /\ results = <<>>
    /\ accidentReports = <<>>

\* a message that starts with lower-case report and names a known vehicle was
\* rejected
C30_Witness ==
  /\ request.path = "sms-webhook" /\ request.body
  /\ request.command = "report" /\ request.qrToken = "known"
  /\ Answered /\ response.error = "invalid format"

\* ---- vocabulary of the parser properties ----
Read == parsed[1]
text(field) == IF field = <<>> THEN <<>> ELSE field[1]
Coordinates ==
  Len(smsText) >= 4 /\ smsText[3] \in NumberWords /\ smsText[4] \in NumberWords

\* C31: for 'REPORT <token> <lat> <lng> [other words] NOTE w1 ... wn' with any
\* vehicle token the parser yields those lat and lng, no manual location, and
\* as helper note the words after the NOTE that follows the coordinates.
C31_NoteAfterCoordinates ==
  (parsed # <<>> /\ Coordinates
     /\ indexOf(smsText, "NOTE", 5) \in 1..(Len(smsText) - 1)) =>
    /\ Read.lat = <<smsText[3]>> /\ Read.lng = <<smsText[4]>>
    /\ Read.manualLocation = <<>>
    /\ Read.helperNote =
         <<SubSeq(smsText, indexOf(smsText, "NOTE", 5) + 1, Len(smsText))>>

\* C32: for a message without coordinates that has the LOCATION keyword, the
\* manual location is the words after LOCATION up to the next NOTE, and the
\* helper note the words after that NOTE: the manual location never holds
\* the NOTE keyword or a word after it.
C32_LocationStopsAtNote ==
  LET l == indexOf(smsText, "LOCATION", 3)
      n == indexOf(smsText, "NOTE", l + 1)
  IN (parsed # <<>> /\ ~Coordinates /\ smsText[2] = "tok123" /\ l # 0) =>
       IF n # 0
       THEN /\ text(Read.manualLocation) = SubSeq(smsText, l + 1, n - 1)
            /\ text(Read.helperNote) = SubSeq(smsText, n + 1, Len(smsText))
       ELSE text(Read.manualLocation) = SubSeq(smsText, l + 1, Len(smsText))

\* C33: the retryCount of a queue entry is 0 when it is enqueued, never
\* decreases, and changes only by +1, on each change of the status to failed;
\* changes to pending, syncing or permanently_failed leave it as it is.
C33_RetryCountSteps ==
  [][/\ \A r \in DOMAIN reports' \ DOMAIN reports :
          reports'[r].retryCount = 0 /\ reports'[r].status = "pending"
     /\ \A r \in DOMAIN reports' \cap DOMAIN reports :
          IF reports'[r].status = "failed" /\ reports[r] # reports'[r]
          THEN reports'[r].retryCount = reports[r].retryCount + 1
          ELSE reports'[r].retryCount = reports[r].retryCount]_vars

\* an entry that failed once is pending again and an entry enqueued later
\* has count 0
C33_Witness ==
  \E r, q \in DOMAIN reports :
    /\ reports[r].status = "pending" /\ reports[r].retryCount = 1
    /\ reports[q].retryCount = 0

\* C34: after any sequence of successful storeImage calls for a queue id,
\* getReportImages returns exactly those images (bytes, filename, MIME type),
\* none missing, in the order they were attached, and none of another queue
\* id, whichever encoding the records are written in.
C34_ImagesRoundTrip ==
  \A q \in QueueIds : getReportImageFiles(q) = attachedFiles[q]

\* C35: a report is never submitted and accepted (and then deleted together
\* with its images) with fewer images than are stored for it, even when
\* reading or decoding an image fails: the submission the endpoint accepts
\* carries every image stored for the entry.
C35_AcceptedWithEveryImage ==
  [][\A t \in Tabs :
       (pc[t] = "fetch" /\ pc'[t] = "respOk")
         => formImages[t] = getReportImages(CurrentReport(t).id)]_vars

\* C36: while the page is online and sync triggers keep occurring outside the
\* cooldown, every queued entry is eventually removed after an acceptance or
\* parked as permanently_failed, even if a tab is closed or reloaded in the
\* middle of a cycle; no entry stays in status syncing or failed for ever.
C36_EveryEntryLeaves ==
  \A i \in Ids :
    (i \in DOMAIN reports)
      ~> (i \notin DOMAIN reports \/ reports[i].status = "permanently_failed")

\* a trigger has arrived in tab t (its timer is waiting) while the page is
\* online and a cycle is draining, or while the cooldown is running
TriggerWhileDraining(t) == online /\ onlineSyncTimeout[t] > 0 /\ pc[t] # "idle"
TriggerInCooldown(t) ==
  /\ online /\ onlineSyncTimeout[t] > 0 /\ pc[t] = "idle"
  /\ now - getLastSyncTime < SYNC_COOLDOWN

\* nothing is left for a cycle to drain
NothingPending == AllIdle /\ getPendingReports = <<>>

\* C37: a sync trigger is never lost: after a trigger that arrives while a
\* cycle is draining or during the cooldown, a sync cycle eventually starts
\* (unless nothing is pending any more, or the page went offline), without
\* any further connectivity or background trigger.
C37_TriggerNotLost ==
  \A c \in 0..(MaxCycles - 1) :
    ((TriggerWhileDraining("A") \/ TriggerInCooldown("A")) /\ cycles = c)
      ~> (cycles > c \/ NothingPending \/ ~online)

\* C38: the release at the end of a cycle removes only the lock record that
\* this cycle wrote: a cycle never deletes a lock record another tab acquired
\* in the meantime.
C38_ReleasesOwnLock ==
  [][\A t \in Tabs :
       (Draining(t) /\ pc'[t] = "idle" /\ lock # <<>> /\ lock' = <<>>)
         => lockOwner = t]_vars

\* the moves of a status the cycle is meant to make
Moves == {<<"pending", "syncing">>, <<"syncing", "failed">>,
          <<"failed", "pending">>, <<"failed", "permanently_failed">>}

Syncing == {r \in DOMAIN reports : reports[r].status = "syncing"}

\* every change of a status in this step is one of the moves
StatusMovesAlong ==
  \A r \in DOMAIN reports \cap DOMAIN reports' :
    reports'[r].status # reports[r].status
      => <<reports[r].status, reports'[r].status>> \in Moves

\* every entry this step deletes has status syncing
DeletedWhileSyncing ==
  \A r \in DOMAIN reports \ DOMAIN reports' : reports[r].status = "syncing"

\* C39: the status of a queue entry only moves pending -> syncing,
\* syncing -> failed, failed -> pending and failed -> permanently_failed, an
\* entry is deleted only while its status is syncing, and at most one entry
\* has status syncing at any time.
C39_StatusMoves ==
  [][StatusMovesAlong /\ DeletedWhileSyncing /\ Cardinality(Syncing') <= 1]_vars

\* the queue entry has a latitude and a longitude
HasCoordinates == queued.latitude # Undefined /\ queued.longitude # Undefined

\* C40: coordinates survive the pipeline for every numeric value, zero
\* included: when a queued report has a latitude and a longitude, the sync
\* payload contains both with the same values, the persisted report stores
\* them, and the alert carries a maps link built from them.
C40_CoordinatesSurvive ==
  (cpc = "alerted" /\ HasCoordinates) =>
    /\ parseFloat(payload.latitude) = <<queued.latitude.n>>
    /\ parseFloat(payload.longitude) = <<queued.longitude.n>>
    /\ persisted = [lat |-> <<"num", queued.latitude.n>>,
                    lng |-> <<"num", queued.longitude.n>>]
    /\ link = <<queued.latitude.n, queued.longitude.n>>

====
